---- MODULE Spec2Model ----
(***************************************************************************)
(* Model of sagemaker/inference_recommender/inference_recommender_mixin.py *)
(* : the four parameter translators, right_size and the deploy-time guard  *)
(* _check_inference_recommender_args of InferenceRecommenderMixin.         *)
(*                                                                         *)
(* Python values are kept apart by a one-field tag so that the truth test  *)
(* of the `if x:` and `a or b` conditions of the source can be computed as *)
(* Python computes it: None, 0, "" and [] are false, objects and non-empty *)
(* dicts are true.                                                         *)
(***************************************************************************)
EXTENDS Integers, Sequences, FiniteSets, TLC

VARIABLES
    is_model_package,                    \* isinstance(self, sagemaker.model.ModelPackage)
    framework_name,                      \* what self._framework() returns
    sagemaker_session,                   \* self.sagemaker_session
    inference_recommender_job_results,   \* self.inference_recommender_job_results
    inference_recommendations,           \* self.inference_recommendations
    hyperparameter_ranges,               \* the caller's list of mappings, as it is after the latest call
    calls,                               \* the session collaborator's calls made by the latest right_size
    outcome                              \* the latest operation: its name, arguments, and how it ended

vars == <<is_model_package, framework_name, sagemaker_session,
          inference_recommender_job_results, inference_recommendations,
          hyperparameter_ranges, calls, outcome>>

-----------------------------------------------------------------------------
(* Python values *)

None == [none |-> TRUE]
PyInt(n) == [int |-> n]
PyStr(s) == [str |-> s]
PyList(s) == [list |-> s]
PyTuple(s) == [tuple |-> s]

IsNone(v) == "none" \in DOMAIN v

\* bool(v) of Python
Truthy(v) ==
    IF "none" \in DOMAIN v THEN FALSE
    ELSE IF "int" \in DOMAIN v THEN v.int # 0
    ELSE IF "str" \in DOMAIN v THEN v.str # ""
    ELSE IF "list" \in DOMAIN v THEN Len(v.list) # 0
    ELSE TRUE

\* a or b of Python
PyOr(a, b) == IF Truthy(a) THEN a ELSE b

\* dict.get(key, default) on a dict with string keys
Get(d, key, default) == IF key \in DOMAIN d THEN d[key] ELSE default

\* A dict whose iteration order matters is the sequence of its items.
ItemKeys(items) == {items[i].name : i \in 1..Len(items)}

ItemsGet(items, key, default) ==
    IF key \in ItemKeys(items)
    THEN (CHOOSE it \in {items[i] : i \in 1..Len(items)} : it.name = key).param
    ELSE default

ItemsPop(items, key) == SelectSeq(items, LAMBDA it : it.name # key)

\* All sequences over S of length at most n
SeqsUpTo(S, n) == UNION {[1..k -> S] : k \in 0..n}

-----------------------------------------------------------------------------
(* Value objects *)

INFERENCE_RECOMMENDER_FRAMEWORK_MAPPING ==
    [xgboost |-> "XGBOOST",
     sklearn |-> "SAGEMAKER-SCIKIT-LEARN",
     pytorch |-> "PYTORCH",
     tensorflow |-> "TENSORFLOW",
     mxnet |-> "MXNET"]

Phase(duration_in_seconds, initial_number_of_users, spawn_rate) ==
    [to_json |-> [DurationInSeconds |-> duration_in_seconds,
                  InitialNumberOfUsers |-> initial_number_of_users,
                  SpawnRate |-> spawn_rate]]

ModelLatencyThreshold(percentile, value_in_milliseconds) ==
    [to_json |-> [Percentile |-> percentile,
                  ValueInMilliseconds |-> value_in_milliseconds]]

\* sagemaker.parameter.CategoricalParameter: an object holding the list .values
CategoricalParameter(values) == [values |-> values]

\* CategoricalParameter.as_json_range(name)
as_json_range(param, name) == [Name |-> name, Values |-> param.values]

-----------------------------------------------------------------------------
(* The four parameter translators.  Each returns how it ended: "returned" *)
(* with the value, or the exception raised.                               *)

Returned(v) == [status |-> "returned", value |-> v]
Raised(exception) == [status |-> exception, value |-> None]

\* as_json = param.as_json_range(name); as_json["Value"] = as_json.pop("Values")
RangeDescriptor(name, param) ==
    LET as_json == as_json_range(param, name)
    IN  [k \in (DOMAIN as_json \ {"Values"}) \cup {"Value"} |->
            IF k = "Value" THEN as_json["Values"] ELSE as_json[k]]

\* The test that makes the translator raise for an entry
LacksInstanceTypes(parameter_range) ==
    ~Truthy(ItemsGet(parameter_range, "instance_types", None))

\* Variant of EntryConfigurations without parameter_range.copy(): the pop acts
\* on the caller's mapping.
EntryConfigurationsNoCopy(parameter_range) ==
    LET instance_types == ItemsGet(parameter_range, "instance_types", None).values
        popped == ItemsPop(parameter_range, "instance_types")
        parameter_ranges ==
            [i \in 1..Len(popped) |-> RangeDescriptor(popped[i].name, popped[i].param)]
    IN  [configs |->
            [j \in 1..Len(instance_types) |->
                [EnvironmentParameterRanges |->
                    [CategoricalParameterRanges |-> parameter_ranges],
                 InstanceType |-> instance_types[j]]],
         caller_entry |-> popped]

\* The loop body for one entry that has instance_types: the configurations it
\* appends, and the caller's mapping as the body leaves it (the pop acts on
\* the copy, so the caller's mapping keeps every item).
EntryConfigurations(parameter_range) ==
    LET copied == parameter_range
        instance_types == ItemsGet(copied, "instance_types", None).values
        popped == ItemsPop(copied, "instance_types")
        parameter_ranges ==
            [i \in 1..Len(popped) |-> RangeDescriptor(popped[i].name, popped[i].param)]
    IN  [configs |->
            [j \in 1..Len(instance_types) |->
                [EnvironmentParameterRanges |->
                    [CategoricalParameterRanges |-> parameter_ranges],
                 InstanceType |-> instance_types[j]]],
         caller_entry |-> parameter_range]

\* Variant of EndpointLoop that passes over an entry without instance_types
\* instead of raising.
RECURSIVE EndpointLoopSkipping(_, _, _)
EndpointLoopSkipping(todo, done, acc) ==
    IF todo = <<>>
    THEN [status |-> "returned", value |-> PyList(acc), ranges |-> PyList(done)]
    ELSE IF LacksInstanceTypes(Head(todo))
    THEN EndpointLoopSkipping(Tail(todo), Append(done, Head(todo)), acc)
    ELSE LET body == EntryConfigurations(Head(todo))
         IN  EndpointLoopSkipping(Tail(todo), Append(done, body.caller_entry),
                                  acc \o body.configs)

\* for parameter_range in hyperparameter_ranges: ... ; `todo` are the entries
\* still to visit, `done` the caller's entries already visited, `acc` the list
\* endpoint_configurations_to_json so far.
RECURSIVE EndpointLoop(_, _, _)
EndpointLoop(todo, done, acc) ==
    IF todo = <<>>
    THEN [status |-> "returned", value |-> PyList(acc), ranges |-> PyList(done)]
    ELSE IF LacksInstanceTypes(Head(todo))
    THEN [status |-> "ValueError", value |-> None, ranges |-> PyList(done \o todo)]
    ELSE LET body == EntryConfigurations(Head(todo))
         IN  EndpointLoop(Tail(todo), Append(done, body.caller_entry),
                          acc \o body.configs)

\* The result carries, besides status and value, the caller's list as the
\* call leaves it (`ranges`).
_convert_to_endpoint_configurations_json(ranges) ==
    IF ~Truthy(ranges)
    THEN [status |-> "returned", value |-> None, ranges |-> ranges]
    ELSE EndpointLoop(ranges.list, <<>>, <<>>)

_convert_to_traffic_pattern_json(traffic_type, phases) ==
    IF ~Truthy(phases)
    THEN Returned(None)
    ELSE Returned([Phases |-> [i \in 1..Len(phases.list) |-> phases.list[i].to_json],
                   TrafficType |-> IF Truthy(traffic_type) THEN traffic_type
                                   ELSE PyStr("PHASES")])

_convert_to_resource_limit_json(max_tests, max_parallel_tests) ==
    IF ~Truthy(max_tests) /\ ~Truthy(max_parallel_tests)
    THEN Returned(None)
    ELSE Returned([MaxNumberOfTests |-> max_tests,
                   MaxParallelOfTests |-> max_parallel_tests])

\* The comprehension iterates model_latency_thresholds itself: over None it
\* raises TypeError.
_convert_to_stopping_conditions_json(max_invocations, model_latency_thresholds) ==
    IF ~Truthy(max_invocations) /\ ~Truthy(model_latency_thresholds)
    THEN Returned(None)
    ELSE IF IsNone(model_latency_thresholds)
    THEN Raised("TypeError")
    ELSE Returned([MaxInvocations |-> max_invocations,
                   ModelLatencyThresholds |->
                       [i \in 1..Len(model_latency_thresholds.list) |->
                           model_latency_thresholds.list[i].to_json]])

-----------------------------------------------------------------------------
(* The session collaborator and the caller's own helpers *)

\* What a call of the session raises when it fails
SessionError == "SessionError"

\* self._framework is a bound method of the caller; as a dictionary key it is
\* the method object, which no string equals.
bound_method_framework == "<bound method Model._framework>"

\* self._get_framework_version()
_get_framework_version == None

\* self._init_sagemaker_session_if_does_not_exist()
_init_sagemaker_session_if_does_not_exist(session) ==
    IF IsNone(session) THEN [session |-> "Session"] ELSE session

-----------------------------------------------------------------------------
(* right_size *)

\* the framework handed to the session
RightSizeFramework(framework) ==
    IF ~Truthy(framework) /\ Truthy(framework_name)
    THEN Get(INFERENCE_RECOMMENDER_FRAMEWORK_MAPPING, bound_method_framework, framework)
    ELSE framework

\* the job type chosen from the four translator results
JobType(endpoint_configurations, traffic_pattern, stopping_conditions, resource_limit) ==
    IF Truthy(PyOr(PyOr(PyOr(endpoint_configurations, traffic_pattern),
                        stopping_conditions), resource_limit))
    THEN "Advanced"
    ELSE "Default"

InitCall == [fn |-> "_init_sagemaker_session_if_does_not_exist"]

CreateCall(a, framework, job_type, ec, tp, sc, rl, result) ==
    [fn |-> "create_inference_recommendations_job",
     role |-> "self.role",
     job_name |-> a.job_name,
     job_type |-> job_type,
     job_duration_in_seconds |-> a.job_duration_in_seconds,
     model_package_version_arn |-> "self.model_package_arn",
     framework |-> framework,
     framework_version |-> _get_framework_version,
     sample_payload_url |-> a.sample_payload_url,
     supported_content_types |-> a.supported_content_types,
     supported_instance_types |-> a.supported_instance_types,
     endpoint_configurations |-> ec,
     traffic_pattern |-> tp,
     stopping_conditions |-> sc,
     resource_limit |-> rl,
     result |-> result]

\* Variant of WaitJobName that waits for the job_name argument
WaitJobNameFromArgs(a, ret_name) == a.job_name

\* the job name the wait is given: the one the create returned
WaitJobName(a, ret_name) == ret_name

WaitCall(a, ret_name, result) ==
    [fn |-> "wait_for_inference_recommendations_job",
     job_name |-> WaitJobName(a, ret_name),
     log_level |-> a.log_level,
     result |-> result]

\* right_size ends with `status`, having made `made` calls; the caller's
\* fields are written only when `results` is given.
RightSizeEnds(a, ranges, status, made, session, written, results) ==
    /\ outcome' = [op |-> "right_size", args |-> a, status |-> status,
                   value |-> IF status = "returned" THEN [self |-> TRUE] ELSE None]
    /\ calls' = made
    /\ sagemaker_session' = session
    /\ hyperparameter_ranges' = ranges
    /\ IF written
       THEN /\ inference_recommender_job_results' = results
            /\ inference_recommendations' = Get(results, "InferenceRecommendations", None)
       ELSE UNCHANGED <<inference_recommender_job_results, inference_recommendations>>
    /\ UNCHANGED <<is_model_package, framework_name>>

\* Variant of IsRegisteredModel that accepts every caller
AlwaysRegistered == TRUE

\* isinstance(self, sagemaker.model.ModelPackage)
IsRegisteredModel == is_model_package

\* One call self.right_size(**a); sess says what the session does when it is
\* called: sess.create is the job name returned or an error, sess.wait the
\* result mapping returned or an error.
RightSize(a, sess) ==
    IF ~IsRegisteredModel
    THEN RightSizeEnds(a, a.hyperparameter_ranges, "ValueError", <<>>,
                       sagemaker_session, FALSE, None)
    ELSE
    LET framework == RightSizeFramework(a.framework)
        ec == _convert_to_endpoint_configurations_json(a.hyperparameter_ranges)
        tp == _convert_to_traffic_pattern_json(a.traffic_type, a.phases)
        sc == _convert_to_stopping_conditions_json(a.max_invocations,
                                                  a.model_latency_thresholds)
        rl == _convert_to_resource_limit_json(a.max_tests, a.max_parallel_tests)
        job_type == JobType(ec.value, tp.value, sc.value, rl.value)
        session == _init_sagemaker_session_if_does_not_exist(sagemaker_session)
        create == CreateCall(a, framework, job_type, ec.value, tp.value, sc.value,
                             rl.value, sess.create)
        wait == WaitCall(a, sess.create, sess.wait)
    IN  IF ec.status # "returned"
        THEN RightSizeEnds(a, ec.ranges, ec.status, <<>>, sagemaker_session, FALSE, None)
        ELSE IF tp.status # "returned"
        THEN RightSizeEnds(a, ec.ranges, tp.status, <<>>, sagemaker_session, FALSE, None)
        ELSE IF sc.status # "returned"
        THEN RightSizeEnds(a, ec.ranges, sc.status, <<>>, sagemaker_session, FALSE, None)
        ELSE IF rl.status # "returned"
        THEN RightSizeEnds(a, ec.ranges, rl.status, <<>>, sagemaker_session, FALSE, None)
        ELSE IF "raised" \in DOMAIN sess.create
        THEN RightSizeEnds(a, ec.ranges, SessionError, <<InitCall, create>>,
                           session, FALSE, None)
        ELSE IF "raised" \in DOMAIN sess.wait
        THEN RightSizeEnds(a, ec.ranges, SessionError, <<InitCall, create, wait>>,
                           session, FALSE, None)
        ELSE RightSizeEnds(a, ec.ranges, "returned", <<InitCall, create, wait>>,
                           session, TRUE, sess.wait)

-----------------------------------------------------------------------------
(* _check_inference_recommender_args *)

\* Variant of TopRecommendation that reads the last recommendation
TopRecommendationLast(recommendations) ==
    IF IsNone(recommendations) THEN Raised("TypeError")
    ELSE IF Len(recommendations.list) = 0 THEN Raised("IndexError")
    ELSE LET top == recommendations.list[Len(recommendations.list)]["EndpointConfiguration"]
         IN  Returned(PyTuple(<<top["InstanceType"], top["InitialInstanceCount"]>>))

\* self.inference_recommendations[0]["EndpointConfiguration"][...]: over None
\* the subscript raises TypeError, over an empty list IndexError.
TopRecommendation(recommendations) ==
    IF IsNone(recommendations) THEN Raised("TypeError")
    ELSE IF Len(recommendations.list) = 0 THEN Raised("IndexError")
    ELSE LET top == recommendations.list[1]["EndpointConfiguration"]
         IN  Returned(PyTuple(<<top["InstanceType"], top["InitialInstanceCount"]>>))

\* Variant of the guard with the instance_type rule ahead of the accelerator rule
CheckArgsOverrideRuleFirst(c) ==
    IF Truthy(c.instance_type) \/ Truthy(c.initial_instance_count)
    THEN Returned(None)
    ELSE IF Truthy(c.accelerator_type) THEN Raised("ValueError")
    ELSE IF Truthy(c.async_inference_config) THEN Returned(None)
    ELSE IF Truthy(c.serverless_inference_config) THEN Returned(None)
    ELSE TopRecommendation(inference_recommendations)

\* Variant of the guard without the serverless_inference_config rule
CheckArgsWithoutServerlessRule(c) ==
    IF Truthy(c.accelerator_type) THEN Raised("ValueError")
    ELSE IF Truthy(c.instance_type) \/ Truthy(c.initial_instance_count)
    THEN Returned(None)
    ELSE IF Truthy(c.async_inference_config) THEN Returned(None)
    ELSE TopRecommendation(inference_recommendations)

\* the rules of the guard, in the order of the source
_check_inference_recommender_args(c) ==
    IF Truthy(c.accelerator_type) THEN Raised("ValueError")
    ELSE IF Truthy(c.instance_type) \/ Truthy(c.initial_instance_count)
    THEN Returned(None)
    ELSE IF Truthy(c.async_inference_config) THEN Returned(None)
    ELSE IF Truthy(c.serverless_inference_config) THEN Returned(None)
    ELSE TopRecommendation(inference_recommendations)

\* One call self._check_inference_recommender_args(**c)
CheckArgs(c) ==
    LET r == _check_inference_recommender_args(c)
    IN  /\ outcome' = [op |-> "_check_inference_recommender_args", args |-> c,
                       status |-> r.status, value |-> r.value]
        /\ UNCHANGED <<is_model_package, framework_name, sagemaker_session,
                       inference_recommender_job_results, inference_recommendations,
                       hyperparameter_ranges, calls>>

-----------------------------------------------------------------------------
(* Bounds and input sets *)

MaxEntries == 2          \* entries of a hyperparameter_ranges list
MaxAdvancedEntries == 1  \* the same, where every other advanced parameter varies too
MaxPhases == 1           \* phases of a call
MaxThresholds == 2       \* model latency thresholds of a call
MaxRecs == 2             \* recommendations in a result of the session

InstanceTypeLists ==
    {<<>>, <<"ml.c5.xlarge">>, <<"ml.c5.xlarge", "ml.c5.2xlarge">>}

Items ==
    {[name |-> "instance_types", param |-> CategoricalParameter(v)] :
        v \in InstanceTypeLists}
    \cup {[name |-> "OMP_NUM_THREADS", param |-> CategoricalParameter(<<"1", "2">>)],
          [name |-> "MKL_NUM_THREADS", param |-> CategoricalParameter(<<"4">>)]}

\* The mappings: every order of items with distinct keys
Entries ==
    {e \in SeqsUpTo(Items, Cardinality({it.name : it \in Items})) :
        \A i, j \in 1..Len(e) : e[i].name = e[j].name => i = j}

RangesUpTo(n) == {None} \cup {PyList(s) : s \in SeqsUpTo(Entries, n)}

PhasesArgs == {None} \cup {PyList(s) : s \in SeqsUpTo({Phase(120, 1, 1)}, MaxPhases)}

ThresholdArgs ==
    {None} \cup {PyList(s) :
        s \in SeqsUpTo({ModelLatencyThreshold("P95", 100),
                        ModelLatencyThreshold("P99", 300)}, MaxThresholds)}

OptionalCounts == {None, PyInt(0), PyInt(5)}

DefaultArgs ==
    [sample_payload_url |-> None, supported_content_types |-> None,
     supported_instance_types |-> None, job_name |-> None, framework |-> None,
     job_duration_in_seconds |-> None, hyperparameter_ranges |-> None,
     phases |-> None, traffic_type |-> None, max_invocations |-> None,
     model_latency_thresholds |-> None, max_tests |-> None,
     max_parallel_tests |-> None, log_level |-> PyStr("Verbose")]

Recommendation(instance_type, initial_instance_count) ==
    [EndpointConfiguration |-> [InstanceType |-> PyStr(instance_type),
                                InitialInstanceCount |-> PyInt(initial_instance_count)]]

\* What wait_for_inference_recommendations_job can return
Results ==
    {[InferenceRecommendations |-> PyList(s)] :
        s \in SeqsUpTo({Recommendation("ml.c5.xlarge", 2),
                        Recommendation("ml.c5.2xlarge", 1)}, MaxRecs)}

SessionRaises == [raised |-> SessionError]

SessionBehaviours ==
    [create : {SessionRaises, PyStr("job-1"), PyStr("job-2")},
     wait : {SessionRaises} \cup Results]

SessionSucceeds ==
    [create |-> PyStr("job-1"),
     wait |-> [InferenceRecommendations |-> PyList(<<Recommendation("ml.c5.xlarge", 2)>>)]]

GuardArgs ==
    [instance_type : {None, PyStr(""), PyStr("ml.m5.large")},
     initial_instance_count : {None, PyInt(0), PyInt(1)},
     accelerator_type : {None, PyStr(""), PyStr("ml.eia2.medium")},
     serverless_inference_config : {None, [ServerlessInferenceConfig |-> TRUE]},
     async_inference_config : {None, [AsyncInferenceConfig |-> TRUE]}]

DetectedFrameworks ==
    {None} \cup {PyStr(n) : n \in DOMAIN INFERENCE_RECOMMENDER_FRAMEWORK_MAPPING
                                  \cup {"huggingface"}}

-----------------------------------------------------------------------------
(* Specifications *)

NoOutcome == [op |-> "none"]

InitWith(model_package, frameworks, ranges) ==
    /\ is_model_package \in model_package
    /\ framework_name \in frameworks
    /\ sagemaker_session = None
    /\ inference_recommender_job_results = None
    /\ inference_recommendations = None
    /\ hyperparameter_ranges \in ranges
    /\ calls = <<>>
    /\ outcome = NoOutcome

(* Spec: a model handle on which right_size and the guard are called any   *)
(* number of times, in any order, the session failing or not.              *)
Init == InitWith(BOOLEAN, {None}, {None})

RightSizeStep ==
    \E job_name \in {None, PyStr("my-job")}, sess \in SessionBehaviours :
        RightSize([DefaultArgs EXCEPT !.job_name = job_name], sess)

CheckArgsStep == \E c \in GuardArgs : CheckArgs(c)

Next == RightSizeStep \/ CheckArgsStep

Spec == Init /\ [][Next]_vars

(* SpecFramework: right_size on handles of every detected framework, with  *)
(* and without an explicit framework.                                      *)
InitFramework == InitWith({TRUE}, DetectedFrameworks, {None})

RightSizeFrameworkStep ==
    \E framework \in {None, PyStr(""), PyStr("PYTORCH"), PyStr("my-framework")},
       sess \in SessionBehaviours :
        RightSize([DefaultArgs EXCEPT !.framework = framework], sess)

NextFramework == RightSizeFrameworkStep

SpecFramework == InitFramework /\ [][NextFramework]_vars

(* SpecTranslate: the endpoint-configuration translator, alone and inside  *)
(* right_size, applied once to a list the caller holds.                    *)
InitTranslate == InitWith({TRUE}, {None}, RangesUpTo(MaxEntries))

ConvertEndpointStep ==
    /\ outcome = NoOutcome
    /\ LET r == _convert_to_endpoint_configurations_json(hyperparameter_ranges)
       IN  /\ outcome' = [op |-> "_convert_to_endpoint_configurations_json",
                          args |-> [hyperparameter_ranges |-> hyperparameter_ranges],
                          status |-> r.status, value |-> r.value]
           /\ hyperparameter_ranges' = r.ranges
    /\ UNCHANGED <<is_model_package, framework_name, sagemaker_session,
                   inference_recommender_job_results, inference_recommendations, calls>>

RightSizeRangesStep ==
    /\ outcome = NoOutcome
    /\ RightSize([DefaultArgs EXCEPT !.hyperparameter_ranges = hyperparameter_ranges],
                 SessionSucceeds)

NextTranslate == ConvertEndpointStep \/ RightSizeRangesStep

SpecTranslate == InitTranslate /\ [][NextTranslate]_vars

(* SpecAdvanced: one right_size call, or one call of the stopping-         *)
(* conditions translator, over the advanced job parameters.                *)
InitAdvanced == InitWith({TRUE}, {None}, RangesUpTo(MaxAdvancedEntries))

RightSizeAdvancedStep ==
    /\ outcome = NoOutcome
    /\ \E phases \in PhasesArgs, traffic_type \in {None, PyStr("STAIRS")},
          max_invocations \in OptionalCounts, thresholds \in ThresholdArgs,
          max_tests \in OptionalCounts, max_parallel_tests \in OptionalCounts :
           RightSize([DefaultArgs EXCEPT
                          !.hyperparameter_ranges = hyperparameter_ranges,
                          !.phases = phases, !.traffic_type = traffic_type,
                          !.max_invocations = max_invocations,
                          !.model_latency_thresholds = thresholds,
                          !.max_tests = max_tests,
                          !.max_parallel_tests = max_parallel_tests],
                     SessionSucceeds)

ConvertStoppingStep ==
    /\ outcome = NoOutcome
    /\ \E max_invocations \in OptionalCounts, thresholds \in ThresholdArgs :
           LET r == _convert_to_stopping_conditions_json(max_invocations, thresholds)
           IN  outcome' = [op |-> "_convert_to_stopping_conditions_json",
                           args |-> [max_invocations |-> max_invocations,
                                     model_latency_thresholds |-> thresholds],
                           status |-> r.status, value |-> r.value]
    /\ UNCHANGED <<is_model_package, framework_name, sagemaker_session,
                   inference_recommender_job_results, inference_recommendations,
                   hyperparameter_ranges, calls>>

NextAdvanced == RightSizeAdvancedStep \/ ConvertStoppingStep

SpecAdvanced == InitAdvanced /\ [][NextAdvanced]_vars

-----------------------------------------------------------------------------
(* Properties *)

IsRightSize == outcome.op = "right_size"
IsGuard == outcome.op = "_check_inference_recommender_args"
IsEndpointTranslator == outcome.op = "_convert_to_endpoint_configurations_json"
IsStoppingTranslator == outcome.op = "_convert_to_stopping_conditions_json"

CallsOf(cs, fn) == {i \in 1..Len(cs) : cs[i].fn = fn}
Creates(cs) == CallsOf(cs, "create_inference_recommendations_job")
Waits(cs) == CallsOf(cs, "wait_for_inference_recommendations_job")
CallRaised(call) == "result" \in DOMAIN call /\ "raised" \in DOMAIN call.result
NeverWritten ==
    IsNone(inference_recommender_job_results) /\ IsNone(inference_recommendations)

\* C1 (as claimed): whenever right_size reaches the session, the job_type it
\* passes is "Advanced" if and only if at least one of the four translator
\* results is non-null, and "Default" if and only if all four are null.
C1_JobTypeIffNonNull ==
    (IsRightSize /\ Creates(calls) # {}) =>
        \A i \in Creates(calls) :
            LET c == calls[i]
                some_non_null ==
                    \/ ~IsNone(c.endpoint_configurations)
                    \/ ~IsNone(c.traffic_pattern)
                    \/ ~IsNone(c.stopping_conditions)
                    \/ ~IsNone(c.resource_limit)
            IN  /\ c.job_type \in {"Advanced", "Default"}
                /\ (c.job_type = "Advanced") <=> some_non_null
                /\ (c.job_type = "Default") <=> ~some_non_null

\* C2: right_size on a caller that is not a ModelPackage ends with the usage
\* error, with no session initialization, no create and no wait call, and with
\* the two result fields never written.
C2_NotRegisteredFailsBeforeSession ==
    (IsRightSize /\ ~is_model_package) =>
        /\ outcome.status = "ValueError"
        /\ calls = <<>>
        /\ IsNone(sagemaker_session)
        /\ NeverWritten

C2_Witness ==
    /\ IsRightSize /\ ~is_model_package
    /\ outcome.status = "ValueError"
    /\ ~IsNone(outcome.args.job_name)

\* The latest right_size call completed, and the session returned `results` to it
LastRightSizeCompleted ==
    /\ Len(calls) = 3
    /\ \A i \in 1..Len(calls) : ~CallRaised(calls[i])
LastReturnedList == calls[3].result["InferenceRecommendations"].list

NoOverrides ==
    [instance_type |-> None, initial_instance_count |-> None,
     accelerator_type |-> None, serverless_inference_config |-> None,
     async_inference_config |-> None]

C4_AnyGivenAcceleratorFails ==
    (IsGuard /\ ~IsNone(outcome.args.accelerator_type)) =>
        outcome.status = "ValueError"

\* C4 (amended): whenever a non-empty accelerator type is given, the guard
\* fails with the usage error, whatever else is given in the same call; it
\* returns neither None nor a recommendation pair.
C4_AcceleratorRuleFirst ==
    (IsGuard /\ Truthy(outcome.args.accelerator_type)) =>
        outcome.status = "ValueError"

C4_Witness ==
    /\ IsGuard
    /\ Truthy(outcome.args.accelerator_type)
    /\ Truthy(outcome.args.instance_type)
    /\ Truthy(outcome.args.initial_instance_count)
    /\ Truthy(outcome.args.async_inference_config)
    /\ Truthy(outcome.args.serverless_inference_config)
    /\ ~IsNone(inference_recommendations)
    /\ outcome.status = "ValueError"

\* C5 (as claimed): with no accelerator type and at least one of instance_type,
\* initial_instance_count, async or serverless configuration given (not None),
\* the guard returns None.
C5_AnyGivenOverrideReturnsNone ==
    (IsGuard /\ IsNone(outcome.args.accelerator_type)
        /\ (\/ ~IsNone(outcome.args.instance_type)
            \/ ~IsNone(outcome.args.initial_instance_count)
            \/ ~IsNone(outcome.args.async_inference_config)
            \/ ~IsNone(outcome.args.serverless_inference_config))) =>
        outcome.status = "returned" /\ IsNone(outcome.value)

\* C5 (amended): with no accelerator type (None or empty) and at least one of
\* a non-empty instance_type, a non-zero initial_instance_count, an async or a
\* serverless configuration, the guard returns None whatever the prior
\* recommendation is, and leaves both result fields unchanged.
C5_OverrideReturnsNoneAndKeepsFields ==
    [][(outcome'.op = "_check_inference_recommender_args"
        /\ ~Truthy(outcome'.args.accelerator_type)
        /\ (\/ Truthy(outcome'.args.instance_type)
            \/ Truthy(outcome'.args.initial_instance_count)
            \/ Truthy(outcome'.args.async_inference_config)
            \/ Truthy(outcome'.args.serverless_inference_config))) =>
        /\ outcome'.status = "returned"
        /\ IsNone(outcome'.value)
        /\ UNCHANGED <<inference_recommender_job_results, inference_recommendations>>]_vars

C5_Witness ==
    /\ IsGuard
    /\ IsNone(outcome.args.accelerator_type)
    /\ IsNone(outcome.args.instance_type)
    /\ IsNone(outcome.args.initial_instance_count)
    /\ IsNone(outcome.args.async_inference_config)
    /\ Truthy(outcome.args.serverless_inference_config)
    /\ ~IsNone(inference_recommendations)
    /\ Len(inference_recommendations.list) > 0
    /\ outcome.status = "returned" /\ IsNone(outcome.value)

\* C6 (as claimed): with no explicit framework and a detected framework of the
\* lookup table, the framework passed to create_inference_recommendations_job
\* is the table's image of the detected name; an explicit framework is passed
\* as given.
C6_FrameworkMapped ==
    (IsRightSize /\ Creates(calls) # {}) =>
        \A i \in Creates(calls) :
            /\ (IsNone(outcome.args.framework) /\ ~IsNone(framework_name)
                /\ framework_name.str \in DOMAIN INFERENCE_RECOMMENDER_FRAMEWORK_MAPPING) =>
                   calls[i].framework =
                       PyStr(INFERENCE_RECOMMENDER_FRAMEWORK_MAPPING[framework_name.str])
            /\ ~IsNone(outcome.args.framework) =>
                   calls[i].framework = outcome.args.framework


\* What the endpoint-configuration translator is to emit for one entry: one
\* document per candidate instance type, each with one {Name, Value}
\* descriptor per key other than instance_types, in the order of the keys.
ExpectedDocuments(entry) ==
    LET types == ItemsGet(entry, "instance_types", None).values
        others == SelectSeq(entry, LAMBDA it : it.name # "instance_types")
        descriptors ==
            [k \in 1..Len(others) |->
                [Name |-> others[k].name, Value |-> others[k].param.values]]
    IN  [j \in 1..Len(types) |->
            [EnvironmentParameterRanges |-> [CategoricalParameterRanges |-> descriptors],
             InstanceType |-> types[j]]]

\* The concatenation of a sequence of sequences
RECURSIVE Flatten(_)
Flatten(ss) == IF ss = <<>> THEN <<>> ELSE Head(ss) \o Flatten(Tail(ss))

HasInstanceTypes(entry) == "instance_types" \in ItemKeys(entry)

GivenEntries(ranges) == ~IsNone(ranges) /\ Len(ranges.list) > 0

\* C7: given entries that all carry instance_types, the translator returns,
\* entry after entry in input order, one document per candidate instance type
\* with one descriptor per remaining key (N documents of K descriptors for an
\* entry of N instance types and K other keys), and the caller's mappings
\* still contain instance_types afterwards.
C7_OneDocumentPerInstanceType ==
    (IsEndpointTranslator /\ GivenEntries(outcome.args.hyperparameter_ranges)
        /\ \A i \in 1..Len(outcome.args.hyperparameter_ranges.list) :
               HasInstanceTypes(outcome.args.hyperparameter_ranges.list[i])) =>
        LET given == outcome.args.hyperparameter_ranges.list
        IN  /\ outcome.status = "returned"
            /\ outcome.value =
                   PyList(Flatten([i \in 1..Len(given) |-> ExpectedDocuments(given[i])]))
            /\ Len(hyperparameter_ranges.list) = Len(given)
            /\ \A i \in 1..Len(given) : HasInstanceTypes(hyperparameter_ranges.list[i])

C7_Witness ==
    /\ IsEndpointTranslator
    /\ outcome.status = "returned"
    /\ GivenEntries(outcome.args.hyperparameter_ranges)
    /\ Len(outcome.args.hyperparameter_ranges.list) = 2
    /\ LET first == outcome.args.hyperparameter_ranges.list[1]
       IN  /\ Len(first) = 3
           /\ Len(ItemsGet(first, "instance_types", None).values) = 2
    /\ Len(outcome.value.list) >= 3
    /\ Len(outcome.value.list[1]["EnvironmentParameterRanges"]["CategoricalParameterRanges"]) = 2

\* C8: when an entry of a non-empty hyperparameter_ranges omits instance_types,
\* at whatever position, the translator ends with the validation error and
\* returns no list; right_size called with such a list ends with that error
\* and submits no job to the session.
C8_MissingInstanceTypesFails ==
    ((IsEndpointTranslator \/ IsRightSize)
        /\ GivenEntries(outcome.args.hyperparameter_ranges)
        /\ \E i \in 1..Len(outcome.args.hyperparameter_ranges.list) :
               ~HasInstanceTypes(outcome.args.hyperparameter_ranges.list[i])) =>
        /\ outcome.status = "ValueError"
        /\ IsNone(outcome.value)
        /\ IsRightSize => (calls = <<>> /\ NeverWritten)

C8_Witness ==
    /\ IsRightSize
    /\ outcome.status = "ValueError"
    /\ Len(outcome.args.hyperparameter_ranges.list) = 2
    /\ HasInstanceTypes(outcome.args.hyperparameter_ranges.list[1])
    /\ Len(ItemsGet(outcome.args.hyperparameter_ranges.list[1],
                    "instance_types", None).values) > 0
    /\ ~HasInstanceTypes(outcome.args.hyperparameter_ranges.list[2])
    /\ calls = <<>>

\* C9 (as claimed): the stopping-conditions translator returns null when both
\* arguments are absent and, for every other input, a mapping {MaxInvocations,
\* ModelLatencyThresholds} whose ModelLatencyThresholds lists the wire forms
\* of the given thresholds in order.
C9_StoppingConditionsMapping ==
    IsStoppingTranslator =>
        LET max_invocations == outcome.args.max_invocations
            thresholds == outcome.args.model_latency_thresholds
            given == IF IsNone(thresholds) THEN <<>> ELSE thresholds.list
        IN  IF IsNone(max_invocations) /\ IsNone(thresholds)
            THEN outcome.status = "returned" /\ IsNone(outcome.value)
            ELSE /\ outcome.status = "returned"
                 /\ DOMAIN outcome.value = {"MaxInvocations", "ModelLatencyThresholds"}
                 /\ outcome.value["MaxInvocations"] = max_invocations
                 /\ outcome.value["ModelLatencyThresholds"] =
                        [i \in 1..Len(given) |-> given[i].to_json]

\* C10: one right_size call invokes create at most once and wait at most once,
\* the wait after a create that returned and with the job name it returned; a
\* call of the session that raises is the last one made, its error is how
\* right_size ends, and the two result fields then keep their values: they
\* change only in a call whose wait returned.
C10_SessionCallsOnceAndFailuresKeepFields ==
    [][outcome'.op = "right_size" =>
        LET cs == calls'
            kept == UNCHANGED <<inference_recommender_job_results,
                                inference_recommendations>>
        IN  /\ Cardinality(Creates(cs)) <= 1
            /\ Cardinality(Waits(cs)) <= 1
            /\ \A w \in Waits(cs) :
                   \E c \in Creates(cs) :
                       /\ c < w
                       /\ ~CallRaised(cs[c])
                       /\ cs[w].job_name = cs[c].result
            /\ \A i \in 1..Len(cs) :
                   CallRaised(cs[i]) =>
                       /\ i = Len(cs)
                       /\ outcome'.status = SessionError
                       /\ kept
            /\ outcome'.status = SessionError => \E i \in 1..Len(cs) : CallRaised(cs[i])
            /\ ~kept => \E w \in Waits(cs) : ~CallRaised(cs[w])]_vars

C10_Witness ==
    /\ IsRightSize
    /\ outcome.status = SessionError
    /\ Len(calls) = 3
    /\ CallRaised(calls[3])
    /\ ~IsNone(inference_recommendations)
    /\ Len(inference_recommendations.list) = 2

====
